---- MODULE Spec2Model ----
(***************************************************************************)
(* archrypto_core: compress_files / extract_files.                         *)
(*                                                                         *)
(* Files are byte sequences (integers 0..255).  A string (a file name, an  *)
(* archive entry name) is a sequence of one-character strings; a path      *)
(* inside a tree is a sequence of components, each a string.               *)
(* The zip crate, AES-256-GCM and RSA PKCS#1 v1.5 are library code: they   *)
(* are modelled by small codecs that keep what the callers rely on         *)
(* (lengths, determinism, the tag check, the padding check) and are        *)
(* computed byte by byte.                                                  *)
(***************************************************************************)
EXTENDS Integers, Sequences, FiniteSets, TLC

\* ------------------------------------------------------------- bounds ----
\* Longest target list handed to compress_files.
MaxTargets == 2

\* Most successful compress_files calls in a row.
MaxSeals == 2

\* Most keys registered in one list of the Config.
MaxKeys == 3

\* ---------------------------------------------------------- constants ----
NonceLen == 12
HeaderLen == 14
KeyLen == 32
TagLen == 16
Pkcs1Overhead == 11
U16 == 65536

EXTENTION == <<"a", "c", "r", "p">>

\* Byte sequences hold 0..255: <<-1>> stands for "no such file" and for the
\* error of an operation that returns bytes.
NoFile == <<-1>>
Bad == <<-1>>
None == "None"

\* ------------------------------------------------------------ helpers ----
\* The sum of s[lo..hi], by halves.
RECURSIVE SumRange(_, _, _)
SumRange(s, lo, hi) ==
    IF lo > hi THEN 0
    ELSE IF lo = hi THEN s[lo]
    ELSE LET mid == (lo + hi) \div 2
         IN SumRange(s, lo, mid) + SumRange(s, mid + 1, hi)

SumSeq(s) == SumRange(s, 1, Len(s))

RECURSIVE Flatten(_)
Flatten(ss) == IF ss = <<>> THEN <<>> ELSE Head(ss) \o Flatten(Tail(ss))

Last(s) == s[Len(s)]

Front(s) == SubSeq(s, 1, Len(s) - 1)

IsPrefix(p, s) == Len(p) <= Len(s) /\ SubSeq(s, 1, Len(p)) = p

\* Lexicographic order on sequences of one-character strings, through codes.
Code(ch) ==
    CASE ch = "/" -> 47
      [] ch = "." -> 46
      [] ch = "a" -> 97
      [] ch = "b" -> 98
      [] ch = "d" -> 100
      [] ch = "e" -> 101
      [] ch = "n" -> 110
      [] ch = "s" -> 115
      [] OTHER -> 63

Char(c) ==
    CASE c = 47 -> "/"
      [] c = 46 -> "."
      [] c = 97 -> "a"
      [] c = 98 -> "b"
      [] c = 100 -> "d"
      [] c = 101 -> "e"
      [] c = 110 -> "n"
      [] c = 115 -> "s"
      [] OTHER -> "?"

RECURSIVE SeqLess(_, _)
SeqLess(a, b) ==
    IF a = <<>> THEN b # <<>>
    ELSE IF b = <<>> THEN FALSE
    ELSE IF Code(Head(a)) # Code(Head(b)) THEN Code(Head(a)) < Code(Head(b))
    ELSE SeqLess(Tail(a), Tail(b))

\* The elements of a finite set of sequences, in lexicographic order.
RECURSIVE SortPaths(_)
SortPaths(S) ==
    IF S = {} THEN <<>>
    ELSE LET m == CHOOSE x \in S : \A y \in S \ {x} : SeqLess(x, y)
         IN <<m>> \o SortPaths(S \ {m})

\* ------------------------------------------------ Path::extension --------
\* std::path::Path::extension on a path without directory part: the part of
\* the file name after its last '.', None when there is no '.', or when the
\* only '.' is the first character.
DotPositions(name) == {i \in 1..Len(name) : name[i] = "."}

\* The result is an Option: <<>> for None, <<ext>> for Some(ext).
extension(name) ==
    IF DotPositions(name) = {} THEN <<>>
    ELSE LET d == CHOOSE i \in DotPositions(name) :
                      \A j \in DotPositions(name) : j <= i
         IN IF d = 1 THEN <<>> ELSE <<SubSeq(name, d + 1, Len(name))>>

to_lowercase(s) ==
    [i \in 1..Len(s) |->
       CASE s[i] = "A" -> "a"
         [] s[i] = "C" -> "c"
         [] s[i] = "R" -> "r"
         [] s[i] = "P" -> "p"
         [] OTHER -> s[i]]

\* A validate_extension that compares the lowercased extension.
validate_extension_lowercase(check_path) ==
    LET ext == extension(check_path)
    IN ext # <<>> /\ to_lowercase(ext[1]) = EXTENTION

\* validate_extension: the raw extension string equals EXTENTION (the
\* lowercased `ext` it computes first is never used).
validate_extension(check_path) ==
    extension(check_path) = <<EXTENTION>>

\* ------------------------------------------------------------- trees -----
\* A tree maps the paths that exist to nodes.  kind: "file", "locked" (a
\* regular file that cannot be opened), "special" (a fifo), "dir".
Node(kind, data) == [kind |-> kind, data |-> data]

DirNode == Node("dir", <<>>)

EmptyTree == [p \in {} |-> DirNode]

cn == <<"n">>
cd == <<"d">>
ca == <<"a">>
cs == <<"s">>
cb == <<"b">>

NVariants ==
    { EmptyTree,
      <<cn>> :> Node("file", <<104, 105>>),
      <<cn>> :> Node("locked", <<1>>),
      <<cn>> :> Node("special", <<>>) }

DVariants ==
    { EmptyTree,
      <<cd>> :> DirNode,
      <<cd>> :> DirNode @@ <<cd, ca>> :> Node("file", <<>>),
      <<cd>> :> DirNode @@ <<cd, cs>> :> DirNode,
      <<cd>> :> DirNode @@ <<cd, ca>> :> Node("file", <<>>)
          @@ <<cd, cs>> :> DirNode @@ <<cd, cs, cb>> :> Node("file", <<7>>) }

\* The source trees compress_files may be run on.
SrcTrees == {n @@ d : n \in NVariants, d \in DVariants}

TargetCandidates == {<<cn>>, <<cd>>, <<cd, cs>>}

TargetLists == UNION {[1..k -> TargetCandidates] : k \in 0..MaxTargets}

Exists(fs, p) == p \in DOMAIN fs

\* Path::is_file / Path::is_dir
is_file(fs, p) == Exists(fs, p) /\ fs[p].kind \in {"file", "locked"}

is_dir(fs, p) == Exists(fs, p) /\ fs[p].kind = "dir"

\* Path::join(..).to_string_lossy(): the components separated by '/'.
RECURSIVE JoinPath(_)
JoinPath(comps) ==
    IF comps = <<>> THEN <<>>
    ELSE IF Len(comps) = 1 THEN Head(comps)
    ELSE Head(comps) \o <<"/">> \o JoinPath(Tail(comps))

\* The components of a '/'-separated name (empty components dropped, as
\* Path::join and Path::components do).
RECURSIVE SplitName(_, _)
SplitName(name, cur) ==
    IF name = <<>> THEN (IF cur = <<>> THEN <<>> ELSE <<cur>>)
    ELSE IF Head(name) = "/"
         THEN (IF cur = <<>> THEN <<>> ELSE <<cur>>) \o SplitName(Tail(name), <<>>)
         ELSE SplitName(Tail(name), Append(cur, Head(name)))

\* WalkDir::new(t) restricted to the regular files it yields, as paths
\* relative to t, in a fixed order (the order of the joined names).
FilesUnder(fs, t) ==
    {p \in DOMAIN fs : IsPrefix(t, p) /\ fs[p].kind \in {"file", "locked"}}

WalkFiles(fs, t) ==
    LET joined == {JoinPath(p) : p \in FilesUnder(fs, t)}
        sorted == SortPaths(joined)
    IN [i \in 1..Len(sorted) |->
          CHOOSE p \in FilesUnder(fs, t) : JoinPath(p) = sorted[i]]

\* count_files: -1 (Err) when the walk fails (the root does not exist), else
\* the number of regular files below the path.
count_files(fs, path) ==
    IF ~Exists(fs, path) THEN -1 ELSE Cardinality(FilesUnder(fs, path))

\* count_files_in_paths: the sum, or the first error.
RECURSIVE count_files_in_paths(_, _)
count_files_in_paths(fs, paths) ==
    IF paths = <<>> THEN 0
    ELSE LET c == count_files(fs, Head(paths))
             r == count_files_in_paths(fs, Tail(paths))
         IN IF c = -1 THEN -1 ELSE IF r = -1 THEN -1 ELSE c + r

\* ------------------------------------------------------- zip archive -----
\* An entry is [name, data].  The archive bytes are the entries one after
\* another (name length, name, data length, data) followed, once the writer
\* is finished, by the central directory: entry count and the signature.
Entry(name, data) == [name |-> name, data |-> data]

Codes(name) == [i \in 1..Len(name) |-> Code(name[i])]

Chars(bytes) == [i \in 1..Len(bytes) |-> Char(bytes[i])]

EntryBytes(e) == <<Len(e.name)>> \o Codes(e.name) \o <<Len(e.data)>> \o e.data

ZipBody(entries) == Flatten([i \in 1..Len(entries) |-> EntryBytes(entries[i])])

ZipSignature == <<80, 75>>

\* ZipWriter::finish
ZipFinish(entries) == ZipBody(entries) \o <<Len(entries)>> \o ZipSignature

EntryNames(entries) == {entries[i].name : i \in 1..Len(entries)}

\* ZipArchive::new + by_index: [ok, entries] for the bytes of a file; ok is
\* FALSE when the bytes are no finished archive.
NotZip == [ok |-> FALSE, entries |-> <<>>]

RECURSIVE ParseEntries(_, _)
ParseEntries(bytes, n) ==
    IF n = 0 THEN (IF bytes = <<>> THEN [ok |-> TRUE, entries |-> <<>>] ELSE NotZip)
    ELSE IF Len(bytes) < 1 \/ Len(bytes) < 2 + bytes[1] THEN NotZip
    ELSE LET nl == bytes[1]
             dl == bytes[2 + nl]
         IN IF Len(bytes) < 2 + nl + dl THEN NotZip
            ELSE LET rest == ParseEntries(SubSeq(bytes, 3 + nl + dl, Len(bytes)), n - 1)
                 IN IF ~rest.ok THEN NotZip
                    ELSE [ok |-> TRUE,
                          entries |-> <<Entry(Chars(SubSeq(bytes, 2, 1 + nl)),
                                              SubSeq(bytes, 3 + nl, 2 + nl + dl))>>
                                      \o rest.entries]

ZipParse(bytes) ==
    IF Len(bytes) < 3 \/ SubSeq(bytes, Len(bytes) - 1, Len(bytes)) # ZipSignature
    THEN NotZip
    ELSE ParseEntries(SubSeq(bytes, 1, Len(bytes) - 3), bytes[Len(bytes) - 2])

ends_with_slash(name) == name # <<>> /\ Last(name) = "/"

\* count_files_in_zip: the entries whose name does not end with '/'.
count_files_in_zip(entries) ==
    Cardinality({i \in 1..Len(entries) : ~ends_with_slash(entries[i].name)})

\* ------------------------------------------------------ AES-256-GCM ------
\* Aes256Gcm::generate_key / generate_nonce draw from these.
AesKeys == {[i \in 1..KeyLen |-> 17], [i \in 1..KeyLen |-> (7 * i) % 256]}

Nonces == {[i \in 1..NonceLen |-> 0], [i \in 1..NonceLen |-> (11 * i) % 256]}

\* A longer run of compress_files calls draws from these.
AesKeyPool == AesKeys \cup {[i \in 1..KeyLen |-> (255 - 3 * i) % 256]}

NoncePool == Nonces \cup {[i \in 1..NonceLen |-> (200 + 5 * i) % 256]}

\* OsRng is a cryptographically secure generator: a value it returns is one
\* it has not returned before (two draws of 96 or 256 bits do not collide).
\* `returned` is what it has returned so far.
\* Aes256Gcm::generate_key(&mut rng): the keys the call may return.
generate_key(pool, returned) == pool \ returned

\* A nonce that does not come from the generator.
generate_nonce_fixed(pool, returned) == {[i \in 1..NonceLen |-> 0]}

\* Aes256Gcm::generate_nonce(&mut rng): the nonces the call may return.
generate_nonce(pool, returned) == pool \ returned

Keystream(key, nonce, i) ==
    (key[((i - 1) % KeyLen) + 1] + nonce[((i - 1) % NonceLen) + 1] + i) % 256

AeadBody(key, nonce, pt) ==
    [i \in 1..Len(pt) |-> (pt[i] + Keystream(key, nonce, i)) % 256]

\* The tag depends on the key, the nonce and every byte of the body (each
\* with an odd weight, so that no change of one byte keeps the tag).
AeadTag(key, nonce, c) ==
    LET w == SumSeq([i \in 1..Len(c) |-> (2 * i + 1) * c[i]]) + Len(c)
    IN [j \in 1..TagLen |->
          (key[j] + 3 * key[j + TagLen] + nonce[((j - 1) % NonceLen) + 1] + w + j) % 256]

\* cipher.encrypt(nonce, plaintext): body followed by the tag.
AeadSeal(key, nonce, pt) ==
    LET c == AeadBody(key, nonce, pt) IN c \o AeadTag(key, nonce, c)

\* A decryption that returns the body without verifying the tag.
AeadOpenUnchecked(key, nonce, ct) ==
    IF Len(ct) < TagLen THEN <<>>
    ELSE [i \in 1..(Len(ct) - TagLen) |->
            (ct[i] + 256 - Keystream(key, nonce, i)) % 256]

\* cipher.decrypt(nonce, ciphertext): the plaintext, or Bad when the
\* tag does not verify.
AeadOpen(key, nonce, ct) ==
    IF Len(ct) < TagLen THEN Bad
    ELSE LET c == SubSeq(ct, 1, Len(ct) - TagLen)
             tag == SubSeq(ct, Len(ct) - TagLen + 1, Len(ct))
         IN IF tag # AeadTag(key, nonce, c) THEN Bad
            ELSE [i \in 1..Len(c) |-> (c[i] + 256 - Keystream(key, nonce, i)) % 256]

\* ---------------------------------------------------- RSA PKCS#1 v1.5 ----
\* Key pairs 1 and 2: 2048 bit; pair 3: 4096 bit (the largest modulus the
\* rsa crate accepts); pair 4: 256 bit.
ModulusBytes(pair) ==
    CASE pair = 1 -> 256
      [] pair = 2 -> 256
      [] pair = 3 -> 512
      [] pair = 4 -> 32

KeyFile(kind, pair) == [kind |-> kind, pair |-> pair]

PubKeyFiles ==
    {KeyFile("key", p) : p \in {1, 3, 4}}
        \cup {KeyFile("badpem", 0), KeyFile("missing", 0)}

PrivKeyFiles ==
    {KeyFile("key", p) : p \in {1, 2, 3}}
        \cup {KeyFile("badpem", 0), KeyFile("missing", 0)}

Pkcs1Pad(size, msg) ==
    <<0, 2>> \o [i \in 1..(size - Len(msg) - 3) |-> 255] \o <<0>> \o msg

RsaRawEncrypt(pair, em) == [i \in 1..Len(em) |-> (em[i] + 37 * pair + i) % 256]

RsaRawDecrypt(pair, c) ==
    [i \in 1..Len(c) |-> (c[i] + 256 * (Len(c) + 1) - 37 * pair - i) % 256]

\* public_key.encrypt(rng, Pkcs1v15Encrypt, msg): Bad when the modulus
\* cannot hold the message and the padding.
RsaWrap(pair, msg) ==
    IF ModulusBytes(pair) < Len(msg) + Pkcs1Overhead THEN Bad
    ELSE RsaRawEncrypt(pair, Pkcs1Pad(ModulusBytes(pair), msg))

\* What a decryption whose input was not produced for this key may return
\* besides an error: some message the padding check happens to accept.
GarbageMessages == {[i \in 1..n |-> 99] : n \in {0, 5, KeyLen}}

Unpad(em) ==
    IF Len(em) < Pkcs1Overhead \/ em[1] # 0 \/ em[2] # 2 THEN Bad
    ELSE LET zeros == {i \in 3..Len(em) : em[i] = 0}
         IN IF zeros = {} THEN Bad
            ELSE LET z == CHOOSE i \in zeros : \A j \in zeros : i <= j
                 IN IF z < Pkcs1Overhead THEN Bad
                    ELSE SubSeq(em, z + 1, Len(em))

\* private_key.decrypt(Pkcs1v15Encrypt, c): the set of possible results.  A
\* ciphertext made for this key gives its message; any other input gives an
\* error (Bad) or, when the padding check passes by chance, some message.
RsaUnwrapOutcomes(pair, c) ==
    LET msg == IF Len(c) = ModulusBytes(pair)
               THEN Unpad(RsaRawDecrypt(pair, c)) ELSE Bad
    IN IF msg # Bad /\ RsaWrap(pair, msg) = c THEN {msg}
       ELSE IF Len(c) > ModulusBytes(pair) THEN {Bad}
       ELSE {Bad} \cup GarbageMessages

\* ---------------------------------------------------------- container ----
to_be_bytes(n) == <<n \div 256, n % 256>>

from_be_bytes(hi, lo) == 256 * hi + lo

\* A narrowing of the wrapped key's length to 8 bits.
key_size_u8(encrypted_key) == Len(encrypted_key) % 256

\* let key_size = encrypted_key.len() as u16
key_size(encrypted_key) == Len(encrypted_key) % U16

\* The four write_all calls of encrypt_file_with_public_key.
ContainerBytes(nonce, encrypted_key, encrypted_zip) ==
    nonce \o to_be_bytes(key_size(encrypted_key)) \o encrypted_key \o encrypted_zip

\* extract_nonce: the first 12 bytes, Bad (Err) when there are fewer.
extract_nonce(encrypted_data) ==
    IF Len(encrypted_data) < NonceLen THEN Bad
    ELSE SubSeq(encrypted_data, 1, NonceLen)

Ok(data) == [tag |-> "Ok", err |-> None, data |-> data]

Err(kind) == [tag |-> "Err", err |-> kind, data |-> <<>>]

Panic == [tag |-> "Panic", err |-> None, data |-> <<>>]

\* The operation has not returned.
Pending == [tag |-> "Pending", err |-> None, data |-> <<>>]

\* A decryption step that hands back the unauthenticated body.
AeadStepUnchecked(aes_key_bytes, nonce, encrypted_zip) ==
    IF Len(aes_key_bytes) # KeyLen THEN Panic
    ELSE Ok(AeadOpenUnchecked(aes_key_bytes, nonce, encrypted_zip))

\* Lines 264-274: the unwrapped bytes become the AES key (clone_from_slice
\* panics unless there are exactly 32), then the AEAD decryption.
AeadStep(aes_key_bytes, nonce, encrypted_zip) ==
    IF Len(aes_key_bytes) # KeyLen THEN Panic
    ELSE LET pt == AeadOpen(aes_key_bytes, nonce, encrypted_zip)
         IN IF pt = Bad THEN Err("AuthenticationFailed") ELSE Ok(pt)

\* decrypt_zip_with_rsa: the set of possible results for the bytes of the
\* input file (NoFile when it does not exist) and the private key file.
decrypt_zip_with_rsa(encrypted_data, private_key) ==
    IF encrypted_data = NoFile \/ private_key.kind = "missing" THEN {Err("IoError")}
    ELSE IF private_key.kind = "badpem" THEN {Err("KeyParseError")}
    ELSE IF extract_nonce(encrypted_data) = Bad THEN {Err("MalformedContainer")}
    ELSE IF Len(encrypted_data) < HeaderLen THEN {Panic}
    ELSE LET ks == from_be_bytes(encrypted_data[13], encrypted_data[14])
         IN IF HeaderLen + ks > Len(encrypted_data) THEN {Panic}
            ELSE LET encrypted_key == SubSeq(encrypted_data, HeaderLen + 1, HeaderLen + ks)
                     encrypted_zip ==
                         SubSeq(encrypted_data, HeaderLen + ks + 1, Len(encrypted_data))
                 IN { IF u = Bad THEN Err("KeyUnwrapError")
                      ELSE AeadStep(u, extract_nonce(encrypted_data), encrypted_zip)
                      : u \in RsaUnwrapOutcomes(private_key.pair, encrypted_key) }

\* An encrypt_file_with_public_key that creates the output file first.
encrypt_file_create_first(zip_data, public_key, aes_key, nonce) ==
    IF public_key.kind = "missing"
    THEN [result |-> Err("IoError"), io |-> <<"create_output", "read_key">>,
          written |-> <<>>]
    ELSE IF public_key.kind = "badpem"
    THEN [result |-> Err("KeyParseError"), io |-> <<"create_output", "read_key">>,
          written |-> <<>>]
    ELSE LET encrypted_zip == AeadSeal(aes_key, nonce, zip_data)
             encrypted_key == RsaWrap(public_key.pair, aes_key)
         IN IF encrypted_key = Bad
            THEN [result |-> Err("KeyTooSmall"),
                  io |-> <<"create_output", "read_key", "read_temp">>,
                  written |-> <<>>]
            ELSE [result |-> Ok(<<>>),
                  io |-> <<"create_output", "read_key", "read_temp", "write_output">>,
                  written |-> ContainerBytes(nonce, encrypted_key, encrypted_zip)]

\* encrypt_file_with_public_key: its result, the file operations it makes,
\* and the bytes it leaves at encrypted_path (NoFile: never created).
encrypt_file_with_public_key(zip_data, public_key, aes_key, nonce) ==
    IF public_key.kind = "missing"
    THEN [result |-> Err("IoError"), io |-> <<"read_key">>, written |-> NoFile]
    ELSE IF public_key.kind = "badpem"
    THEN [result |-> Err("KeyParseError"), io |-> <<"read_key">>, written |-> NoFile]
    ELSE LET encrypted_zip == AeadSeal(aes_key, nonce, zip_data)
             encrypted_key == RsaWrap(public_key.pair, aes_key)
         IN IF encrypted_key = Bad
            THEN [result |-> Err("KeyTooSmall"), io |-> <<"read_key", "read_temp">>,
                  written |-> NoFile]
            ELSE [result |-> Ok(<<>>),
                  io |-> <<"read_key", "read_temp", "create_output", "write_output">>,
                  written |-> ContainerBytes(nonce, encrypted_key, encrypted_zip)]

\* ------------------------------------------------- the archive builder ---
Built(entries, added) == [tag |-> "Ok", err |-> None, entries |-> entries, added |-> added]

BuildErr(kind) == [tag |-> "Err", err |-> kind, entries |-> <<>>, added |-> 0]

\* zip.start_file refuses a name the archive already holds.
RECURSIVE AddFiles(_, _, _, _, _)
AddFiles(fs, target, files, entries, added) ==
    IF files = <<>> THEN Built(entries, added)
    ELSE LET p == Head(files)
             relative_path == SubSeq(p, Len(target) + 1, Len(p))
             name == JoinPath(<<Last(target)>> \o relative_path)
         IN IF name \in EntryNames(entries) THEN BuildErr("ZipError")
            ELSE IF fs[p].kind = "locked" THEN BuildErr("IoError")
            ELSE AddFiles(fs, target, Tail(files),
                          Append(entries, Entry(name, fs[p].data)), added + 1)

\* One iteration of `for target in target_pathes` (lines 61-102).
add_target(fs, target, entries) ==
    IF is_file(fs, target)
    THEN IF fs[target].kind = "locked" THEN BuildErr("IoError")
         ELSE IF Last(target) \in EntryNames(entries) THEN BuildErr("ZipError")
         ELSE Built(Append(entries, Entry(Last(target), fs[target].data)), 1)
    ELSE IF is_dir(fs, target)
    THEN AddFiles(fs, target, WalkFiles(fs, target), entries, 0)
    ELSE BuildErr("InvalidTarget")

\* ------------------------------------------------------- the extractor ---
Prefixes(p) == {SubSeq(p, 1, k) : k \in 0..Len(p)}

\* std::fs::create_dir_all: [ok, fs]; it fails when a component exists and
\* is no directory, else the missing directories are added.
create_dir_all(fs, p) ==
    IF \E q \in Prefixes(p) : Exists(fs, q) /\ fs[q].kind # "dir"
    THEN [ok |-> FALSE, fs |-> fs]
    ELSE [ok |-> TRUE,
          fs |-> [q \in DOMAIN fs \cup Prefixes(p) |->
                    IF Exists(fs, q) THEN fs[q] ELSE DirNode]]

\* File::create + io::copy: [ok, fs]; it fails when the path is a directory
\* or its parent is no directory.
create_file(fs, p, data) ==
    IF p = <<>> \/ ~is_dir(fs, Front(p)) \/ is_dir(fs, p)
    THEN [ok |-> FALSE, fs |-> fs]
    ELSE [ok |-> TRUE,
          fs |-> [q \in DOMAIN fs \cup {p} |->
                    IF q = p THEN Node("file", data) ELSE fs[q]]]

\* One iteration of `for i in 0..archive.len()` (lines 161-177): whether it
\* succeeded, and the tree it leaves (directories made before a failure stay).
extract_entry(fs, e) ==
    LET outpath == SplitName(e.name, <<>>)
    IN IF ends_with_slash(e.name) THEN create_dir_all(fs, outpath)
       ELSE LET p == IF outpath = <<>> THEN <<>> ELSE Front(outpath)
                made == IF ~Exists(fs, p) THEN create_dir_all(fs, p)
                        ELSE [ok |-> TRUE, fs |-> fs]
            IN IF ~made.ok THEN made ELSE create_file(made.fs, outpath, e.data)

\* ------------------------------------------------------ key registry ----
\* Config: public_keys / private_keys are sequences of paths; an index is a
\* usize counted from 0, so index i designates element i + 1 of the
\* sequence; an Option<usize> is <<>> (None) or <<i>> (Some(i)).
\* Vec::remove(index): the elements after it move one place down.
RemoveAt(keys, index) ==
    [j \in 1..(Len(keys) - 1) |-> IF j <= index THEN keys[j] ELSE keys[j + 1]]

\* Vec::get(i)
Get(keys, i) == IF i < Len(keys) THEN <<keys[i + 1]>> ELSE <<>>

\* The in-memory part of a Config method: whether it went on to save(), and
\* the Config it leaves in memory.
Removed(ok, self) == [ok |-> ok, self |-> self]

\* A removal that leaves the default index as it is unless it designated
\* the removed key.
remove_public_key_no_shift(self, index) ==
    IF index >= Len(self.public_keys) THEN Removed(FALSE, self)
    ELSE LET d == self.default_public_key_index
         IN Removed(TRUE,
                [self EXCEPT !.public_keys = RemoveAt(@, index),
                             !.default_public_key_index =
                                 IF d # <<>> /\ d[1] = index THEN <<>> ELSE d])

\* Config::remove_public_key, lines 114-131.
remove_public_key(self, index) ==
    IF index >= Len(self.public_keys) THEN Removed(FALSE, self)
    ELSE LET default_index == self.default_public_key_index
         IN Removed(TRUE,
                [self EXCEPT !.public_keys = RemoveAt(@, index),
                             !.default_public_key_index =
                                 IF default_index = <<>> THEN <<>>
                                 ELSE IF default_index[1] = index THEN <<>>
                                 ELSE IF default_index[1] > index
                                      THEN <<default_index[1] - 1>>
                                      ELSE default_index])

\* Config::remove_private_key, lines 147-164.
remove_private_key(self, index) ==
    IF index >= Len(self.private_keys) THEN Removed(FALSE, self)
    ELSE LET default_index == self.default_private_key_index
         IN Removed(TRUE,
                [self EXCEPT !.private_keys = RemoveAt(@, index),
                             !.default_private_key_index =
                                 IF default_index = <<>> THEN <<>>
                                 ELSE IF default_index[1] = index THEN <<>>
                                 ELSE IF default_index[1] > index
                                      THEN <<default_index[1] - 1>>
                                      ELSE default_index])

\* A clear that empties the list and leaves the default index.
clear_public_key_keeps_default(self) == [self EXCEPT !.public_keys = <<>>]

\* Config::clear_public_key / clear_private_key before save().
clear_public_key(self) ==
    [self EXCEPT !.public_keys = <<>>, !.default_public_key_index = <<>>]

clear_private_key(self) ==
    [self EXCEPT !.private_keys = <<>>, !.default_private_key_index = <<>>]

\* Config::default_public_key / default_private_key: an Option.
default_public_key(self) ==
    IF self.default_public_key_index = <<>> THEN <<>>
    ELSE Get(self.public_keys, self.default_public_key_index[1])

default_private_key(self) ==
    IF self.default_private_key_index = <<>> THEN <<>>
    ELSE Get(self.private_keys, self.default_private_key_index[1])

\* The paths given to `--add`, and fs::canonicalize on them: the absolute
\* path (an Option, <<>> when the file does not exist).
KeyArgs == {"a.pem", "./a.pem", "b.pem", "none.pem"}

canonicalize(path) ==
    CASE path = "a.pem" -> <<"/home/a.pem">>
      [] path = "./a.pem" -> <<"/home/a.pem">>
      [] path = "b.pem" -> <<"/home/b.pem">>
      [] OTHER -> <<>>

\* ------------------------------------------------------------- state -----
VARIABLES
    srcFs,      \* the tree the targets of compress_files live in
    disk,       \* container files by name: NoFile or bytes
    outFs,      \* the tree at extract_files' output_dir (root <<>>)
    pc,         \* position of the running operation, "idle" between calls
    targets,    \* compress_files: target_pathes
    outName,    \* compress_files: output_crypted
    inName,     \* extract_files: input_encrypted_file
    entries,    \* entries written to / read from the staged archive
    idx,        \* loop index of the running operation
    tmp,        \* the staging NamedTempFile: NoFile or bytes
    plain,      \* extract_files: decrypted_zip
    pos,        \* progress bar position
    len,        \* progress bar length
    cResult,    \* result of compress_files (Pending: not returned)
    xResult,    \* result of extract_files (Pending: not returned)
    io,         \* file operations made by the running / last operation
    sealed,     \* what the last successful compress_files wrote, for reference
    tamper,     \* what was done to the container since it was written
    xArgs,      \* extract_files: the private key file read, the tree found
                \* at output_dir when it was called
    rng,        \* OsRng: the values it has returned so far
    seals,      \* what each successful encrypt_file_with_public_key wrote, in order
    config,     \* the Config stored at ~/.archrypt/config.json
    cli         \* the last pubkey / privatekey command: what it was given, the
                \* Config it loaded, and whether it ended without error

vars == <<srcFs, disk, outFs, pc, targets, outName, inName, entries, idx, tmp,
          plain, pos, len, cResult, xResult, io, sealed, tamper, xArgs,
          rng, seals, config, cli>>

FileNames ==
    { <<"o", ".", "a", "c", "r", "p">>,
      <<"o", ".", "A", "C", "R", "P">>,
      <<"o", ".", "z", "i", "p">>,
      <<"a", "c", "r", "p">>,
      <<".", "a", "c", "r", "p">> }

\* The trees extract_files may find at output_dir: absent, empty, holding a
\* file named d, holding a directory named n.
OutDirs ==
    { EmptyTree,
      <<>> :> DirNode,
      <<>> :> DirNode @@ <<cd>> :> Node("file", <<5>>),
      <<>> :> DirNode @@ <<cn>> :> DirNode }

NoTamper == [kind |-> "none", at |-> 0]

NotSealed == [pair |-> 0, bytes |-> NoFile, zip |-> <<>>, aes_key |-> <<>>, nonce |-> <<>>]

NoArgs == [private_key |-> KeyFile("none", 0), outdir |-> EmptyTree]

\* Config::load when the file does not exist.
EmptyConfig ==
    [public_keys |-> <<>>, default_public_key_index |-> <<>>,
     private_keys |-> <<>>, default_private_key_index |-> <<>>]

NoCommand == [list |-> "none", cmd |-> "none", index |-> 0, ok |-> FALSE,
              loaded |-> EmptyConfig]

Init ==
    /\ srcFs \in SrcTrees
    /\ disk = [f \in FileNames |-> NoFile]
    /\ outFs = EmptyTree
    /\ pc = "idle"
    /\ targets = <<>>
    /\ outName = <<>>
    /\ inName = <<>>
    /\ entries = <<>>
    /\ idx = 0
    /\ tmp = NoFile
    /\ plain = <<>>
    /\ pos = 0
    /\ len = 0
    /\ cResult = Pending
    /\ xResult = Pending
    /\ io = <<>>
    /\ sealed = NotSealed
    /\ tamper = NoTamper
    /\ xArgs = NoArgs
    /\ rng = {}
    /\ seals = <<>>
    /\ config = EmptyConfig
    /\ cli = NoCommand

\* NamedTempFile left behind when its owner goes out of scope.
KeepTemp(t) == t

\* Drop of NamedTempFile: the file is removed.
DropTemp(t) == NoFile

DropIo(t) == IF t # NoFile /\ DropTemp(t) = NoFile THEN <<"rm_temp">> ELSE <<>>

\* ---------------------------------------------------- compress_files -----
CompressStart(out, tg) ==
    /\ pc = "idle" /\ cResult = Pending /\ xResult = Pending /\ tamper = NoTamper
    /\ pc' = "c_validate"
    /\ outName' = out
    /\ targets' = tg
    /\ io' = <<>>
    /\ UNCHANGED <<cli, config, rng, seals, srcFs, disk, outFs, inName, entries, idx, tmp, plain, pos, len,
                   cResult, xResult, sealed, tamper, xArgs>>

\* A return of compress_files: temp_zip_file goes out of scope.
CReturn(r, ev) ==
    /\ pc' = "idle"
    /\ cResult' = r
    /\ tmp' = DropTemp(tmp)
    /\ io' = io \o ev \o DropIo(tmp)

\* Lines 39-42.
CValidate ==
    /\ pc = "c_validate"
    /\ IF validate_extension(outName)
       THEN /\ pc' = "c_count"
            /\ UNCHANGED <<cResult, tmp, io>>
       ELSE CReturn(Err("InvalidExtension"), <<>>)
    /\ UNCHANGED <<cli, config, rng, seals, srcFs, disk, outFs, targets, outName, inName, entries, idx, plain,
                   pos, len, xResult, sealed, tamper, xArgs>>

\* Lines 44-51.
CCount ==
    /\ pc = "c_count"
    /\ LET total_files == count_files_in_paths(srcFs, targets)
       IN IF total_files = -1
          THEN /\ CReturn(Err("IoError"), <<"walk">>)
               /\ UNCHANGED <<pos, len>>
          ELSE /\ pc' = "c_mktemp"
               /\ len' = total_files + 1
               /\ pos' = 0
               /\ io' = Append(io, "walk")
               /\ UNCHANGED <<cResult, tmp>>
    /\ UNCHANGED <<cli, config, rng, seals, srcFs, disk, outFs, targets, outName, inName, entries, idx, plain,
                   xResult, sealed, tamper, xArgs>>

\* Lines 54-58.
CMkTemp ==
    /\ pc = "c_mktemp"
    /\ pc' = "c_build"
    /\ tmp' = <<>>
    /\ entries' = <<>>
    /\ idx' = 1
    /\ io' = Append(io, "mktemp")
    /\ UNCHANGED <<cli, config, rng, seals, srcFs, disk, outFs, targets, outName, inName, plain, pos, len,
                   cResult, xResult, sealed, tamper, xArgs>>

\* Lines 61-102, one target.
CTarget ==
    /\ pc = "c_build" /\ idx <= Len(targets)
    /\ LET b == add_target(srcFs, targets[idx], entries)
       IN IF b.tag = "Err"
          THEN /\ CReturn(Err(b.err), <<"read_target">>)
               /\ UNCHANGED <<entries, idx, pos>>
          ELSE /\ entries' = b.entries
               /\ tmp' = ZipBody(b.entries)
               /\ pos' = pos + b.added
               /\ idx' = idx + 1
               /\ io' = Append(io, "read_target")
               /\ UNCHANGED <<pc, cResult>>
    /\ UNCHANGED <<cli, config, rng, seals, srcFs, disk, outFs, targets, outName, inName, plain, len,
                   xResult, sealed, tamper, xArgs>>

\* Line 103: zip.finish().
CFinish ==
    /\ pc = "c_build" /\ idx > Len(targets)
    /\ pc' = "c_encrypt"
    /\ tmp' = ZipFinish(entries)
    /\ UNCHANGED <<cli, config, rng, seals, srcFs, disk, outFs, targets, outName, inName, entries, idx, plain,
                   pos, len, cResult, xResult, io, sealed, tamper, xArgs>>

\* Lines 106-111: the encryption, then the last progress unit.  The key and
\* the nonce are drawn (lines 213-214) once the public key has been parsed.
CEncrypt(public_key, aes_key, nonce) ==
    /\ pc = "c_encrypt"
    /\ LET e == encrypt_file_with_public_key(tmp, public_key, aes_key, nonce)
       IN /\ CReturn(e.result, e.io)
          /\ disk' = IF e.written = NoFile THEN disk
                     ELSE [disk EXCEPT ![outName] = e.written]
          /\ pos' = IF e.result.tag = "Ok" THEN pos + 1 ELSE pos
          /\ sealed' = IF e.result.tag = "Ok"
                       THEN [pair |-> public_key.pair, bytes |-> e.written,
                             zip |-> tmp, aes_key |-> aes_key, nonce |-> nonce]
                       ELSE sealed
          /\ seals' = IF e.result.tag = "Ok" THEN Append(seals, sealed') ELSE seals
    /\ rng' = IF public_key.kind = "key" THEN rng \cup {aes_key, nonce} ELSE rng
    /\ UNCHANGED <<cli, config, srcFs, outFs, targets, outName, inName, entries, idx, plain, len,
                   xResult, tamper, xArgs>>

\* compress_files called again with the arguments of the call that has just
\* returned Ok.
CompressAgain ==
    /\ pc = "idle" /\ cResult.tag = "Ok" /\ xResult = Pending /\ tamper = NoTamper
    /\ Len(seals) < MaxSeals
    /\ pc' = "c_validate"
    /\ cResult' = Pending
    /\ io' = <<>>
    /\ UNCHANGED <<cli, config, rng, seals, srcFs, disk, outFs, targets, outName, inName,
                   entries, idx, tmp, plain, pos, len, xResult, sealed, tamper, xArgs>>

\* ------------------------------------------------------- environment -----
\* Containers made elsewhere for key pair 1: one whose plaintext is no
\* archive, one whose archive holds a directory entry.
ForeignPlaintexts ==
    { <<1, 2, 3>>,
      ZipFinish(<<Entry(<<"e", "/">>, <<>>), Entry(<<"e", "/", "n">>, <<9>>)>>) }

ValidName == <<"o", ".", "a", "c", "r", "p">>

Receive(pt) ==
    /\ pc = "idle" /\ cResult = Pending /\ xResult = Pending /\ tamper = NoTamper
    /\ LET aes_key == CHOOSE k \in AesKeys : k[1] = 17
           nonce == CHOOSE n \in Nonces : n[1] = 0
           bytes == ContainerBytes(nonce, RsaWrap(1, aes_key), AeadSeal(aes_key, nonce, pt))
       IN /\ disk' = [disk EXCEPT ![ValidName] = bytes]
          /\ sealed' = [pair |-> 1, bytes |-> bytes, zip |-> pt,
                        aes_key |-> aes_key, nonce |-> nonce]
    /\ tamper' = [kind |-> "foreign", at |-> 0]
    /\ UNCHANGED <<cli, config, rng, seals, srcFs, outFs, pc, targets, outName, inName, entries, idx, tmp, plain,
                   pos, len, cResult, xResult, io, xArgs>>

WrittenKeySize(bytes) == from_be_bytes(bytes[13], bytes[14])

\* Where a byte of a written container may be changed: in the nonce, the
\* length field, the wrapped key, and anywhere in the ciphertext region.
FlipPositions(bytes) ==
    {1, 13, 14, 15} \cup ((HeaderLen + WrittenKeySize(bytes) + 1)..Len(bytes))

FlipDeltas == {1, 128}

Flip(i, d) ==
    /\ pc = "idle" /\ cResult.tag = "Ok"
    /\ xResult = Pending /\ tamper = NoTamper
    /\ i \in FlipPositions(disk[outName])
    /\ disk' = [disk EXCEPT ![outName][i] = (@ + d) % 256]
    /\ tamper' = [kind |-> "flip", at |-> i]
    /\ UNCHANGED <<cli, config, rng, seals, srcFs, outFs, pc, targets, outName, inName, entries, idx, tmp, plain,
                   pos, len, cResult, xResult, io, sealed, xArgs>>

TruncLens(bytes) ==
    {0, NonceLen - 1, NonceLen, NonceLen + 1, HeaderLen,
     HeaderLen + WrittenKeySize(bytes) - 1, HeaderLen + WrittenKeySize(bytes),
     Len(bytes) - 1}

Truncate(n) ==
    /\ pc = "idle" /\ cResult.tag = "Ok"
    /\ xResult = Pending /\ tamper = NoTamper
    /\ n \in TruncLens(disk[outName])
    /\ disk' = [disk EXCEPT ![outName] = SubSeq(@, 1, n)]
    /\ tamper' = [kind |-> "trunc", at |-> n]
    /\ UNCHANGED <<cli, config, rng, seals, srcFs, outFs, pc, targets, outName, inName, entries, idx, tmp, plain,
                   pos, len, cResult, xResult, io, sealed, xArgs>>

\* ----------------------------------------------------- extract_files -----
ExtractStart(name, dir) ==
    /\ pc = "idle" /\ xResult = Pending
    /\ pc' = "x_validate"
    /\ inName' = name
    /\ outFs' = dir
    /\ io' = <<>>
    /\ pos' = 0
    /\ len' = 1
    /\ entries' = <<>>
    /\ idx' = 0
    /\ xArgs' = [private_key |-> KeyFile("none", 0), outdir |-> dir]
    /\ UNCHANGED <<cli, config, rng, seals, srcFs, disk, targets, outName, tmp, plain, cResult, xResult,
                   sealed, tamper>>

\* A return of extract_files: temp_zip_file, if made, goes out of scope.
XReturn(r, ev) ==
    /\ pc' = "idle"
    /\ xResult' = r
    /\ tmp' = DropTemp(tmp)
    /\ io' = io \o ev \o DropIo(tmp)

\* Lines 134-136.
XValidate ==
    /\ pc = "x_validate"
    /\ IF validate_extension(inName)
       THEN /\ pc' = "x_decrypt"
            /\ UNCHANGED <<xResult, tmp, io>>
       ELSE XReturn(Err("InvalidExtension"), <<>>)
    /\ UNCHANGED <<cli, config, rng, seals, srcFs, disk, outFs, targets, outName, inName, entries, idx, plain,
                   pos, len, cResult, sealed, tamper, xArgs>>

\* extract_files when decrypt_zip_with_rsa fails, with the staging file
\* written before the result is looked at.
XDecryptFailedStaged(r) ==
    /\ pc' = "idle"
    /\ xResult' = r
    /\ tmp' = <<0>>
    /\ io' = io \o <<"read_input", "read_key", "mktemp", "write_temp">>

\* Line 146 when decrypt_zip_with_rsa returns an error or panics: nothing
\* has been staged yet, the error is the result.
XDecryptFailed(r) ==
    XReturn(r, <<"read_input", "read_key">>)

\* Line 146.
XDecrypt(private_key) ==
    /\ pc = "x_decrypt"
    /\ xArgs' = [xArgs EXCEPT !.private_key = private_key]
    /\ \E r \in decrypt_zip_with_rsa(disk[inName], private_key) :
          IF r.tag = "Ok"
          THEN /\ pc' = "x_stage"
               /\ plain' = r.data
               /\ io' = io \o <<"read_input", "read_key">>
               /\ UNCHANGED <<xResult, tmp>>
          ELSE /\ XDecryptFailed(r)
               /\ UNCHANGED plain
    /\ UNCHANGED <<cli, config, rng, seals, srcFs, disk, outFs, targets, outName, inName, entries, idx,
                   pos, len, cResult, sealed, tamper>>

\* Lines 149-150.
XStage ==
    /\ pc = "x_stage"
    /\ pc' = "x_count"
    /\ tmp' = plain
    /\ io' = io \o <<"mktemp", "write_temp">>
    /\ UNCHANGED <<cli, config, rng, seals, srcFs, disk, outFs, targets, outName, inName, entries, idx, plain,
                   pos, len, cResult, xResult, sealed, tamper, xArgs>>

\* Lines 153-159.
XCount ==
    /\ pc = "x_count"
    /\ LET archive == ZipParse(tmp)
       IN IF ~archive.ok
          THEN /\ XReturn(Err("ZipError"), <<"read_temp">>)
               /\ UNCHANGED <<entries, idx, pos, len>>
          ELSE /\ pc' = "x_entry"
               /\ entries' = archive.entries
               /\ idx' = 1
               /\ pos' = pos + 1
               /\ len' = count_files_in_zip(archive.entries) + 1
               /\ io' = Append(io, "read_temp")
               /\ UNCHANGED <<xResult, tmp>>
    /\ UNCHANGED <<cli, config, rng, seals, srcFs, disk, outFs, targets, outName, inName, plain,
                   cResult, sealed, tamper, xArgs>>

\* An extraction loop that goes on to the next entry when one fails.
XEntrySkipFailed ==
    /\ pc = "x_entry" /\ idx <= Len(entries)
    /\ LET r == extract_entry(outFs, entries[idx])
       IN /\ outFs' = r.fs
          /\ idx' = idx + 1
          /\ pos' = pos + 1
          /\ io' = Append(io, "write_entry")
          /\ UNCHANGED <<pc, xResult, tmp>>
    /\ UNCHANGED <<cli, config, rng, seals, srcFs, disk, targets, outName, inName, entries,
                   plain, len, cResult, sealed, tamper, xArgs>>

\* Lines 161-177, one entry.
XEntry ==
    /\ pc = "x_entry" /\ idx <= Len(entries)
    /\ LET r == extract_entry(outFs, entries[idx])
       IN /\ outFs' = r.fs
          /\ IF r.ok
             THEN /\ idx' = idx + 1
                  /\ pos' = pos + 1
                  /\ io' = Append(io, "write_entry")
                  /\ UNCHANGED <<pc, xResult, tmp>>
             ELSE /\ XReturn(Err("IoError"), <<"write_entry">>)
                  /\ UNCHANGED <<idx, pos>>
    /\ UNCHANGED <<cli, config, rng, seals, srcFs, disk, targets, outName, inName, entries, plain, len,
                   cResult, sealed, tamper, xArgs>>

\* Lines 178-181: canonicalize(output_dir) fails when it does not exist.
XComplete ==
    /\ pc = "x_entry" /\ idx > Len(entries)
    /\ IF Exists(outFs, <<>>)
       THEN XReturn(Ok(<<>>), <<>>)
       ELSE XReturn(Err("IoError"), <<>>)
    /\ UNCHANGED <<cli, config, rng, seals, srcFs, disk, outFs, targets, outName, inName, entries, idx, plain,
                   pos, len, cResult, sealed, tamper, xArgs>>

\* ------------------------------------------- pubkey / privatekey -----
coreVars == <<srcFs, disk, outFs, pc, targets, outName, inName, entries, idx, tmp,
              plain, pos, len, cResult, xResult, io, sealed, tamper, xArgs, rng, seals>>

\* The end of a command that loaded `config`: when it ran to config.save()
\* and save() wrote the file, the file holds `new`; when the command exited
\* before, or save() failed, the file is as it was.
KeyCommand(list, cmd, index, ran, new) ==
    \E saved \in (IF ran THEN BOOLEAN ELSE {FALSE}) :
        /\ config' = IF ran /\ saved THEN new ELSE config
        /\ cli' = [list |-> list, cmd |-> cmd, index |-> index, ok |-> ran /\ saved,
                   loaded |-> config]
        /\ UNCHANGED coreVars

\* main.rs lines 38-53: pubkey --add.
PubAdd(new_key) ==
    /\ pc = "idle" /\ Len(config.public_keys) < MaxKeys
    /\ LET absolute_path == canonicalize(new_key)
       IN IF absolute_path = <<>>
          THEN KeyCommand("public", "add", 0, FALSE, config)
          ELSE KeyCommand("public", "add", 0, TRUE,
                   [config EXCEPT
                       !.public_keys = Append(@, absolute_path[1]),
                       !.default_public_key_index = IF @ = <<>> THEN <<0>> ELSE @])

\* main.rs lines 54-65: pubkey --set.
PubSet(index) ==
    /\ pc = "idle"
    /\ IF index >= Len(config.public_keys)
       THEN KeyCommand("public", "set", index, FALSE, config)
       ELSE KeyCommand("public", "set", index, TRUE,
                [config EXCEPT !.default_public_key_index = <<index>>])

\* Config::remove_public_key (lines 114-134) called on the loaded Config.
RemovePublicKey(cmd, index) ==
    LET r == remove_public_key(config, index)
    IN KeyCommand("public", cmd, index, r.ok, r.self)

\* main.rs lines 66-74: pubkey --delte.
PubDelete(index) ==
    /\ pc = "idle"
    /\ IF index >= Len(config.public_keys)
       THEN KeyCommand("public", "delete", index, FALSE, config)
       ELSE RemovePublicKey("delete", index)

\* main.rs lines 76-80: pubkey --clear.
PubClear ==
    /\ pc = "idle"
    /\ KeyCommand("public", "clear", 0, TRUE, clear_public_key(config))

\* main.rs lines 111-126: privatekey --add.
PrivAdd(new_key) ==
    /\ pc = "idle" /\ Len(config.private_keys) < MaxKeys
    /\ LET absolute_path == canonicalize(new_key)
       IN IF absolute_path = <<>>
          THEN KeyCommand("private", "add", 0, FALSE, config)
          ELSE KeyCommand("private", "add", 0, TRUE,
                   [config EXCEPT
                       !.private_keys = Append(@, absolute_path[1]),
                       !.default_private_key_index = IF @ = <<>> THEN <<0>> ELSE @])

\* main.rs lines 127-138: privatekey --set.
PrivSet(index) ==
    /\ pc = "idle"
    /\ IF index >= Len(config.private_keys)
       THEN KeyCommand("private", "set", index, FALSE, config)
       ELSE KeyCommand("private", "set", index, TRUE,
                [config EXCEPT !.default_private_key_index = <<index>>])

\* Config::remove_private_key (lines 147-167) called on the loaded Config.
RemovePrivateKey(cmd, index) ==
    LET r == remove_private_key(config, index)
    IN KeyCommand("private", cmd, index, r.ok, r.self)

\* main.rs lines 139-147: privatekey --delte.
PrivDelete(index) ==
    /\ pc = "idle"
    /\ IF index >= Len(config.private_keys)
       THEN KeyCommand("private", "delete", index, FALSE, config)
       ELSE RemovePrivateKey("delete", index)

\* main.rs lines 148-152: privatekey --clear.
PrivClear ==
    /\ pc = "idle"
    /\ KeyCommand("private", "clear", 0, TRUE, clear_private_key(config))

\* ----------------------------------------------------- specification -----
\* compress_files, then extract_files, on every source tree.
Next ==
    \/ \E out \in FileNames, tg \in TargetLists : CompressStart(out, tg)
    \/ CValidate
    \/ CCount
    \/ CMkTemp
    \/ CTarget
    \/ CFinish
    \/ \E k \in PubKeyFiles, a \in generate_key(AesKeys, rng),
          n \in generate_nonce(Nonces, rng) : CEncrypt(k, a, n)
    \/ \E pt \in ForeignPlaintexts : Receive(pt)
    \/ \E name \in FileNames, dir \in OutDirs : ExtractStart(name, dir)
    \/ XValidate
    \/ \E k \in PrivKeyFiles : XDecrypt(k)
    \/ XStage
    \/ XCount
    \/ XEntry
    \/ XComplete

Spec == Init /\ [][Next]_vars

\* The archive compress_files stages for a target list (the loop of lines
\* 61-102 run to its end).
RECURSIVE build_entries(_, _, _)
build_entries(fs, tgs, acc) ==
    IF tgs = <<>> THEN acc
    ELSE build_entries(fs, Tail(tgs), add_target(fs, Head(tgs), acc).entries)

FullTree ==
    <<cn>> :> Node("file", <<104, 105>>) @@ <<cd>> :> DirNode
        @@ <<cd, ca>> :> Node("file", <<>>)
        @@ <<cd, cs>> :> DirNode @@ <<cd, cs, cb>> :> Node("file", <<7>>)

\* extract_files on a container that compress_files wrote and that was
\* changed in one byte, or cut short, before it is read.  The initial states
\* are states compress_files returns Ok in.
InitOpen ==
    /\ srcFs = FullTree
    /\ targets \in {<<>>, << <<cn>> >>, << <<cd>> >>}
    /\ outName = ValidName
    /\ entries = build_entries(srcFs, targets, <<>>)
    /\ \E k \in {KeyFile("key", 1), KeyFile("key", 3)}, a \in AesKeys, n \in Nonces :
          LET e == encrypt_file_with_public_key(ZipFinish(entries), k, a, n)
          IN /\ disk = [f \in FileNames |-> IF f = outName THEN e.written ELSE NoFile]
             /\ sealed = [pair |-> k.pair, bytes |-> e.written, zip |-> ZipFinish(entries),
                          aes_key |-> a, nonce |-> n]
             /\ rng = {a, n}
             /\ io = <<"walk", "mktemp">> \o [i \in 1..Len(targets) |-> "read_target"]
                       \o e.io \o <<"rm_temp">>
    /\ outFs = EmptyTree
    /\ pc = "idle"
    /\ inName = <<>>
    /\ idx = Len(targets) + 1
    /\ tmp = NoFile
    /\ plain = <<>>
    /\ pos = Len(entries) + 1
    /\ len = Len(entries) + 1
    /\ cResult = Ok(<<>>)
    /\ xResult = Pending
    /\ tamper = NoTamper
    /\ xArgs = NoArgs
    /\ seals = <<sealed>>
    /\ config = EmptyConfig
    /\ cli = NoCommand

NextOpen ==
    \/ \E i \in 1..Len(disk[outName]), d \in FlipDeltas : Flip(i, d)
    \/ \E n \in 0..Len(disk[outName]) : Truncate(n)
    \/ \E name \in FileNames, dir \in OutDirs : ExtractStart(name, dir)
    \/ XValidate
    \/ \E k \in PrivKeyFiles : XDecrypt(k)
    \/ XStage
    \/ XCount
    \/ XEntry
    \/ XComplete

SpecOpen == InitOpen /\ [][NextOpen]_vars

\* compress_files called several times in a row on the same tree.
InitSeal == Init /\ srcFs = FullTree

NextSeal ==
    \/ \E out \in FileNames, tg \in TargetLists : CompressStart(out, tg)
    \/ CValidate
    \/ CCount
    \/ CMkTemp
    \/ CTarget
    \/ CFinish
    \/ \E k \in PubKeyFiles, a \in generate_key(AesKeyPool, rng),
          n \in generate_nonce(NoncePool, rng) : CEncrypt(k, a, n)
    \/ CompressAgain

SpecSeal == InitSeal /\ [][NextSeal]_vars

\* The pubkey and privatekey commands, from the state in which no
\* configuration file exists.
InitKeys == Init /\ srcFs = EmptyTree

NextKeys ==
    \/ \E new_key \in KeyArgs : PubAdd(new_key)
    \/ \E index \in 0..MaxKeys : PubSet(index)
    \/ \E index \in 0..MaxKeys : PubDelete(index)
    \/ PubClear
    \/ \E new_key \in KeyArgs : PrivAdd(new_key)
    \/ \E index \in 0..MaxKeys : PrivSet(index)
    \/ \E index \in 0..MaxKeys : PrivDelete(index)
    \/ PrivClear

SpecKeys == InitKeys /\ [][NextKeys]_vars

\* Config::remove_public_key and Config::remove_private_key called with any
\* index on the Configs that --add and --set build.
RemovePublic(index) == pc = "idle" /\ RemovePublicKey("remove", index)

RemovePrivate(index) == pc = "idle" /\ RemovePrivateKey("remove", index)

NextRemove ==
    \/ \E new_key \in KeyArgs : PubAdd(new_key)
    \/ \E index \in 0..MaxKeys : PubSet(index)
    \/ \E index \in 0..MaxKeys : RemovePublic(index)
    \/ \E new_key \in KeyArgs : PrivAdd(new_key)
    \/ \E index \in 0..MaxKeys : PrivSet(index)
    \/ \E index \in 0..MaxKeys : RemovePrivate(index)

SpecRemove == InitKeys /\ [][NextRemove]_vars

\* ------------------------------------------------------------ claims -----
\* decrypt_zip_with_rsa has run on the container compress_files wrote.
Decrypted == xArgs.private_key.kind # "none" /\ inName = outName

MatchingKey == xArgs.private_key = KeyFile("key", sealed.pair)

Returned(r) == pc = "idle" /\ r # Pending

\* The tree D leaves under output_dir: every target under its own name, with
\* everything below it.
ExpectedTree(fs, tgs) ==
    LET under(t) == {p \in DOMAIN fs : IsPrefix(t, p)}
        rebase(t, p) == <<Last(t)>> \o SubSeq(p, Len(t) + 1, Len(p))
        src == {<<t, p>> : t \in {tgs[i] : i \in 1..Len(tgs)}, p \in DOMAIN fs}
        pairs == {tp \in src : IsPrefix(tp[1], tp[2])}
    IN [q \in {<<>>} \cup {rebase(tp[1], tp[2]) : tp \in pairs} |->
          IF q = <<>> THEN DirNode
          ELSE LET tp == CHOOSE x \in pairs : rebase(x[1], x[2]) = q
               IN fs[tp[2]]]

FreshOutputDir == xArgs.outdir \in {EmptyTree, <<>> :> DirNode}

RoundTripRun ==
    /\ cResult.tag = "Ok" /\ tamper = NoTamper
    /\ Decrypted /\ MatchingKey /\ FreshOutputDir
    /\ Returned(xResult)

\* C1: for every target list D that compress_files accepts (the empty list,
\* empty directories and nested directories included) and the matching
\* private key, extract_files on the container succeeds and leaves under
\* output_dir exactly D's names, contents and directories.
C1_RoundTrip ==
    RoundTripRun => xResult.tag = "Ok" /\ outFs = ExpectedTree(srcFs, targets)

\* The same restricted to what the archive carries: a non-empty D in which
\* every directory holds a file, directly or below.
NoEmptyDirectory ==
    \A i \in 1..Len(targets) : FilesUnder(srcFs, targets[i]) # {}
        /\ \A p \in DOMAIN srcFs :
              IsPrefix(targets[i], p) /\ srcFs[p].kind = "dir"
                  => FilesUnder(srcFs, p) # {}

RoundTripOfFiles ==
    RoundTripRun /\ targets # <<>> /\ NoEmptyDirectory
        => xResult.tag = "Ok" /\ outFs = ExpectedTree(srcFs, targets)

\* C2: a container shorter than 14 bytes, or whose wrapped-key length field
\* reaches past its end, makes decrypt_zip_with_rsa return the
\* MalformedContainer error (with the input file and the key file readable).
MalformedInput(data) ==
    \/ Len(data) < HeaderLen
    \/ HeaderLen + from_be_bytes(data[13], data[14]) > Len(data)

C2_MalformedContainer ==
    /\ xArgs.private_key.kind = "key"
    /\ validate_extension(inName)
    /\ disk[inName] # NoFile
    /\ MalformedInput(disk[inName])
    => xResult = Err("MalformedContainer")

\* C3: after one byte of the ciphertext region of a written container was
\* changed, decrypt_zip_with_rsa with the matching key fails with
\* AuthenticationFailed, and with no key does it return plaintext.
InCiphertextRegion(i) == i > HeaderLen + WrittenKeySize(sealed.bytes)

C3_TamperDetected ==
    tamper.kind = "flip" /\ InCiphertextRegion(tamper.at) /\ Decrypted
        => /\ pc = "idle" /\ plain = <<>> /\ xResult.tag # "Ok"
           /\ MatchingKey => xResult = Err("AuthenticationFailed")

C3_Witness ==
    /\ tamper.kind = "flip" /\ InCiphertextRegion(tamper.at)
    /\ tamper.at <= Len(sealed.bytes) - TagLen
    /\ Decrypted /\ MatchingKey
    /\ xResult = Err("AuthenticationFailed")

\* C4: decrypting an untouched container with a private key of another key
\* pair ends in the error KeyUnwrapError or AuthenticationFailed.
WrongKey == xArgs.private_key.kind = "key" /\ xArgs.private_key.pair # sealed.pair

C4_WrongKeyRejected ==
    tamper = NoTamper /\ Decrypted /\ WrongKey
        => /\ xResult.tag = "Err"
           /\ xResult.err \in {"KeyUnwrapError", "AuthenticationFailed"}

\* C5: when extract_files ends with KeyUnwrapError or AuthenticationFailed,
\* the staging file was never made, nothing was written under output_dir,
\* and no plaintext was produced.
C5_NothingWrittenOnFailure ==
    Returned(xResult) /\ xResult.tag = "Err"
        /\ xResult.err \in {"KeyUnwrapError", "AuthenticationFailed"}
        => /\ tmp = NoFile
           /\ \A i \in 1..Len(io) : io[i] \notin {"mktemp", "write_temp", "write_entry"}
           /\ outFs = xArgs.outdir
           /\ plain = <<>>

C5_Witness ==
    /\ Returned(xResult) /\ xResult = Err("KeyUnwrapError")
    /\ WrongKey /\ tamper = NoTamper
    /\ xArgs.outdir = <<>> :> DirNode /\ outFs = xArgs.outdir

\* C6: with an output path whose extension is not exactly "acrp",
\* compress_files returns InvalidExtension having made no file operation (no
\* walk, no read, no temporary file, no output file); extract_files likewise
\* on its input path.
RegisteredSuffix(name) == extension(name) = <<EXTENTION>>

InCompress == outName # <<>> /\ inName = <<>>

C6_ExtensionGate ==
    /\ InCompress /\ ~RegisteredSuffix(outName)
           => /\ pc = "c_validate" \/ (pc = "idle" /\ cResult = Err("InvalidExtension"))
              /\ io = <<>> /\ tmp = NoFile /\ disk[outName] = NoFile
    /\ inName # <<>> /\ ~RegisteredSuffix(inName)
           => /\ pc = "x_validate" \/ (pc = "idle" /\ xResult = Err("InvalidExtension"))
              /\ io = <<>> /\ tmp = NoFile /\ outFs = xArgs.outdir /\ plain = <<>>
              /\ xArgs.private_key.kind = "none"

C6_Witness ==
    /\ outName = <<"o", ".", "A", "C", "R", "P">>
    /\ cResult = Err("InvalidExtension")
    /\ inName = <<".", "a", "c", "r", "p">>
    /\ xResult = Err("InvalidExtension")
    /\ pc = "idle" /\ io = <<>>

\* C7: the container encrypt_file_with_public_key writes is the nonce (12
\* bytes), the wrapped key's length as 2 big-endian bytes, the wrapped key
\* and the ciphertext, and the length field equals the wrapped key's length.
WrittenByCompress == cResult.tag = "Ok" /\ tamper = NoTamper

C7_ContainerLayout ==
    WrittenByCompress =>
        LET b == disk[outName]
            wrapped == RsaWrap(sealed.pair, sealed.aes_key)
            L == 256 * b[NonceLen + 1] + b[NonceLen + 2]
        IN /\ Len(b) >= HeaderLen
           /\ SubSeq(b, 1, NonceLen) = sealed.nonce
           /\ L = Len(wrapped)
           /\ L = ModulusBytes(sealed.pair)
           /\ SubSeq(b, HeaderLen + 1, HeaderLen + Len(wrapped)) = wrapped
           /\ SubSeq(b, HeaderLen + Len(wrapped) + 1, Len(b))
                  = AeadSeal(sealed.aes_key, sealed.nonce, sealed.zip)
           /\ Len(b) = HeaderLen + Len(wrapped) + Len(sealed.zip) + TagLen

C7_Witness ==
    /\ WrittenByCompress /\ pc = "idle"
    /\ sealed.pair = 3
    /\ Len(disk[outName]) > HeaderLen + 512

BadTarget(t) == ~is_file(srcFs, t) /\ ~is_dir(srcFs, t)

\* The targets before the i-th are files and directories that are archived
\* without error.
PrecedingTargetsValid(i) ==
    \A j \in 1..(i - 1) :
        /\ ~BadTarget(targets[j])
        /\ add_target(srcFs, targets[j],
                      build_entries(srcFs, SubSeq(targets, 1, j - 1), <<>>)).tag = "Ok"

\* C8: a target that is neither a file nor a directory (it does not exist,
\* or it is a special file) makes compress_files fail with InvalidTarget,
\* however many valid targets precede it, and no container is written.
C8_InvalidTarget ==
    /\ InCompress /\ Returned(cResult) /\ RegisteredSuffix(outName)
    /\ \E i \in 1..Len(targets) : BadTarget(targets[i]) /\ PrecedingTargetsValid(i)
    => cResult = Err("InvalidTarget") /\ disk[outName] = NoFile

\* The same for the targets that exist: a special file.
InvalidTargetOfSpecialFile ==
    /\ InCompress /\ Returned(cResult) /\ RegisteredSuffix(outName)
    /\ \A i \in 1..Len(targets) : Exists(srcFs, targets[i])
    /\ \E i \in 1..Len(targets) : BadTarget(targets[i]) /\ PrecedingTargetsValid(i)
    => cResult = Err("InvalidTarget") /\ disk[outName] = NoFile

\* What holds for every such target list: the run fails and no container is
\* written.
AbortsOnBadTarget ==
    /\ outName # <<>> /\ cResult # Pending /\ RegisteredSuffix(outName)
    /\ \E i \in 1..Len(targets) : BadTarget(targets[i])
    => cResult.tag = "Err" /\ disk[outName] = NoFile

\* C9: the output path holds nothing until the archive is complete and both
\* the AEAD encryption and the key wrap have succeeded; what it then holds
\* is the encryption of the whole archive.  When compress_files fails it is
\* left untouched.
C9_OutputOnlyAfterEncryption ==
    outName # <<>> /\ tamper = NoTamper =>
        /\ cResult.tag # "Ok" => disk[outName] = NoFile
        /\ disk[outName] # NoFile =>
              /\ pc \notin {"c_validate", "c_count", "c_mktemp", "c_build", "c_encrypt"}
              /\ cResult.tag = "Ok"
              /\ sealed.zip = ZipFinish(build_entries(srcFs, targets, <<>>))
              /\ disk[outName] =
                    ContainerBytes(sealed.nonce, RsaWrap(sealed.pair, sealed.aes_key),
                                   AeadSeal(sealed.aes_key, sealed.nonce, sealed.zip))

C9_Witness ==
    /\ InCompress /\ pc = "idle"
    /\ cResult = Err("KeyTooSmall")
    /\ Len(targets) = 2 /\ Len(entries) >= 2
    /\ disk[outName] = NoFile

\* C10: the staging file exists only between its creation and the return of
\* the operation that made it: it is gone when compress_files or
\* extract_files has returned, on success and on every error.
C10_TempRemoved ==
    /\ tmp # NoFile => pc \in {"c_build", "c_encrypt", "x_count", "x_entry"}
    /\ pc = "idle" =>
          /\ tmp = NoFile
          /\ (\E i \in 1..Len(io) : io[i] = "mktemp") => Last(io) = "rm_temp"

C10_Witness ==
    /\ pc = "idle" /\ tmp = NoFile
    /\ xResult = Err("IoError")
    /\ \E i \in 1..Len(io) : io[i] = "write_entry"
    /\ Last(io) = "rm_temp"

\* The ciphertext region of a written container.
Ciphertext(seal) ==
    SubSeq(seal.bytes, HeaderLen + WrittenKeySize(seal.bytes) + 1, Len(seal.bytes))

\* C11: any two calls of encrypt_file_with_public_key, in particular two on
\* the same plaintext with the same public key, use different nonces and
\* different content keys and write different ciphertexts; the nonce and the
\* key of a call are values the generator returned in no earlier call.
C11_FreshNonce ==
    /\ \A i, j \in 1..Len(seals) :
          i < j => /\ seals[i].nonce # seals[j].nonce
                   /\ seals[i].aes_key # seals[j].aes_key
                   /\ Ciphertext(seals[i]) # Ciphertext(seals[j])
                   /\ seals[i].bytes # seals[j].bytes
    /\ \A i \in 1..Len(seals) :
          /\ seals[i].nonce \in rng /\ seals[i].aes_key \in rng
          /\ SubSeq(seals[i].bytes, 1, NonceLen) = seals[i].nonce

C11_Witness ==
    /\ Len(seals) = 2 /\ pc = "idle"
    /\ seals[1].zip = seals[2].zip /\ seals[1].pair = seals[2].pair
    /\ Len(entries) >= 2

\* extract_files has returned from a run on a container as it was written,
\* holding a well-formed archive, with the matching private key and an
\* output_dir that did not exist.
ExtractedIntoAbsentDir ==
    /\ Returned(xResult)
    /\ tamper.kind \in {"none", "foreign"}
    /\ sealed.bytes # NoFile /\ inName # <<>> /\ disk[inName] = sealed.bytes
    /\ validate_extension(inName)
    /\ ZipParse(sealed.zip).ok
    /\ MatchingKey
    /\ xArgs.outdir = EmptyTree

\* C12: extract_files on a valid container (one with no entry included) and
\* an output_dir that does not exist succeeds, and output_dir exists
\* afterwards.
C12_OutputDirCreated ==
    ExtractedIntoAbsentDir => xResult.tag = "Ok" /\ Exists(outFs, <<>>)

\* The same for the archives that hold at least one entry.
OutputDirCreatedByEntry ==
    ExtractedIntoAbsentDir /\ ZipParse(sealed.zip).entries # <<>>
        => xResult.tag = "Ok" /\ Exists(outFs, <<>>)

\* A step in which a progress bar is created (lines 46 and 137).
NewProgressBar ==
    \/ pc = "c_count" /\ pc' = "c_mktemp"
    \/ pc = "idle" /\ pc' = "x_validate"

ProgressMonotone == NewProgressBar \/ pos' >= pos

\* The position is at most the total, and both are the number of files
\* plus one when the operation has succeeded.
ProgressWithinTotal ==
    /\ pos <= len
    /\ InCompress /\ cResult.tag = "Ok" => pos = len /\ len = Len(entries) + 1
    /\ xResult.tag = "Ok" => pos = len /\ len = count_files_in_zip(entries) + 1

\* C13: in compress_files and in extract_files the progress position never
\* decreases, never exceeds the total (number of files + 1), and equals the
\* total when the operation succeeds, for every archive, archives with
\* directory entries included.
C13_Progress == [](ProgressWithinTotal) /\ [][ProgressMonotone]_vars

\* What holds for every archive: the position never decreases.
ProgressNeverDecreases == [][ProgressMonotone]_vars

\* What holds for the archives without a directory entry (all that
\* compress_files writes).
ProgressOfFileArchives ==
    (\A i \in 1..Len(entries) : ~ends_with_slash(entries[i].name)) => ProgressWithinTotal

\* extract_files is in its loop over the entries, or has returned from it.
InExtractLoop ==
    /\ inName # <<>> /\ entries # <<>> /\ idx >= 1
    /\ pc = "x_entry" \/ Returned(xResult)

EntryPath(j) == SplitName(entries[j].name, <<>>)

\* Entry j is on disk as the archive holds it.
EntryWritten(j) ==
    IF ends_with_slash(entries[j].name)
    THEN is_dir(outFs, EntryPath(j))
    ELSE /\ is_file(outFs, EntryPath(j))
         /\ outFs[EntryPath(j)].data = entries[j].data
         /\ \A q \in Prefixes(Front(EntryPath(j))) : is_dir(outFs, q)

\* Nothing was done for entry j: what is at its path was there before the
\* call, or is a directory made for an entry up to the k-th.
EntryNotAttempted(j, k) ==
    Exists(outFs, EntryPath(j)) =>
        \/ /\ Exists(xArgs.outdir, EntryPath(j))
           /\ outFs[EntryPath(j)] = xArgs.outdir[EntryPath(j)]
        \/ /\ ends_with_slash(entries[j].name)
           /\ \E i \in 1..k : IsPrefix(EntryPath(j), EntryPath(i))

WriteAttempts == Cardinality({i \in 1..Len(io) : io[i] = "write_entry"})

\* C14: the entries are extracted in archive order, each before the current
\* one is on disk as the archive holds it; when entry k fails extract_files
\* returns IoError at once, the entries before k and what output_dir held
\* stay, the entries after k are not attempted, and entry k is tried once.
C14_FailFast ==
    InExtractLoop =>
        /\ \A j \in 1..(idx - 1) : EntryWritten(j)
        /\ \A j \in (idx + 1)..Len(entries) : EntryNotAttempted(j, idx)
        /\ \A p \in DOMAIN xArgs.outdir : Exists(outFs, p)
        /\ Returned(xResult) /\ idx <= Len(entries)
               => xResult = Err("IoError") /\ WriteAttempts = idx
        /\ Returned(xResult) /\ idx > Len(entries)
               => xResult.tag = "Ok" /\ WriteAttempts = Len(entries)

C14_Witness ==
    /\ InExtractLoop /\ Returned(xResult)
    /\ xResult = Err("IoError")
    /\ idx = 2 /\ Len(entries) = 3
    /\ EntryWritten(1)
    /\ ~Exists(outFs, EntryPath(3))

\* The last command was a call of remove_public_key / remove_private_key.
RemovedFrom(list) == cli.list = list /\ cli.cmd \in {"remove", "delete"}

\* What the call had to do to one list: `before` and `after` are the list
\* and its default index in the Config loaded and in the Config on disk.
RemovalDone(before, default_before, after, default_after, i) ==
    /\ Len(after) = Len(before) - 1
    /\ \A j \in 1..Len(after) : after[j] = (IF j <= i THEN before[j] ELSE before[j + 1])
    /\ default_before = <<>> => default_after = <<>>
    /\ default_before = <<i>> => default_after = <<>>
    /\ default_before # <<>> /\ default_before # <<i>> =>
          /\ default_after = (IF default_before[1] > i THEN <<default_before[1] - 1>>
                               ELSE default_before)
          /\ default_after[1] < Len(after)
          /\ after[default_after[1] + 1] = before[default_before[1] + 1]

\* C15: remove_public_key(i) / remove_private_key(i) with i below the
\* length removes the i-th key and keeps the order of the others; a default
\* that designated the removed key becomes unset, any other default
\* designates the same path as before (its index one less when it was after
\* i).  With i at or above the length the call fails and the list and the
\* default are unchanged.  When save() fails the file is unchanged.
C15_RemoveKey ==
    /\ RemovedFrom("public") =>
          IF cli.ok
          THEN /\ cli.index < Len(cli.loaded.public_keys)
               /\ RemovalDone(cli.loaded.public_keys, cli.loaded.default_public_key_index,
                              config.public_keys, config.default_public_key_index,
                              cli.index)
               /\ default_public_key(config) =
                      (IF cli.loaded.default_public_key_index = <<cli.index>> THEN <<>>
                       ELSE default_public_key(cli.loaded))
          ELSE config = cli.loaded
    /\ RemovedFrom("private") =>
          IF cli.ok
          THEN /\ cli.index < Len(cli.loaded.private_keys)
               /\ RemovalDone(cli.loaded.private_keys, cli.loaded.default_private_key_index,
                              config.private_keys, config.default_private_key_index,
                              cli.index)
               /\ default_private_key(config) =
                      (IF cli.loaded.default_private_key_index = <<cli.index>> THEN <<>>
                       ELSE default_private_key(cli.loaded))
          ELSE config = cli.loaded
    /\ RemovedFrom("public") /\ cli.index >= Len(cli.loaded.public_keys) => ~cli.ok
    /\ RemovedFrom("private") /\ cli.index >= Len(cli.loaded.private_keys) => ~cli.ok

\* A removal before the default: three different positions, the default on
\* the last, the first removed.
C15_Witness ==
    /\ RemovedFrom("public") /\ cli.ok /\ cli.index = 0
    /\ cli.loaded.public_keys = <<"/home/a.pem", "/home/a.pem", "/home/b.pem">>
    /\ cli.loaded.default_public_key_index = <<2>>
    /\ config.default_public_key_index = <<1>>
    /\ default_public_key(config) = <<"/home/b.pem">>

\* The default index is unset or an index into its list.
DefaultValid(keys, default_index) ==
    default_index = <<>> \/ (default_index[1] >= 0 /\ default_index[1] < Len(keys))

\* C16: after any sequence of add, set, delete and clear on the two lists,
\* starting from no configuration, each default index is unset or an index
\* into its list, so default_public_key() / default_private_key() returns
\* a key whenever the index is set; a command on one list leaves the other
\* list and its default as they were.
C16_RegistryInvariant ==
    /\ DefaultValid(config.public_keys, config.default_public_key_index)
    /\ DefaultValid(config.private_keys, config.default_private_key_index)
    /\ config.default_public_key_index # <<>> => default_public_key(config) # <<>>
    /\ config.default_private_key_index # <<>> => default_private_key(config) # <<>>
    /\ cli.list = "public" =>
          /\ config.private_keys = cli.loaded.private_keys
          /\ config.default_private_key_index = cli.loaded.default_private_key_index
    /\ cli.list = "private" =>
          /\ config.public_keys = cli.loaded.public_keys
          /\ config.default_public_key_index = cli.loaded.default_public_key_index

\* The public list cleared while the private list holds keys and a default.
C16_Witness ==
    /\ cli.list = "public" /\ cli.cmd = "clear" /\ cli.ok
    /\ Len(cli.loaded.public_keys) = MaxKeys
    /\ cli.loaded.default_public_key_index = <<1>>
    /\ config.public_keys = <<>> /\ config.default_public_key_index = <<>>
    /\ Len(config.private_keys) = 2 /\ config.default_private_key_index = <<1>>

====
